---- MODULE Spec2Model ----
(***************************************************************************)
(* A model of open_csv.c: the two-pass CSV loader                          *)
(*   loadCsv -> createDataFrame -> getDFsize -> closeFile                  *)
(* and the header sanitizer trimToken.                                     *)
(*                                                                         *)
(* Characters are one-character strings; a C string is a sequence of       *)
(* characters and a NUL byte is the empty string.  A block of memory is a  *)
(* sequence of bytes: what malloc returns holds indeterminate bytes, drawn *)
(* from HeapFills; a write past the end of a block is recorded in ub and   *)
(* the run either goes on with the bytes as written or crashes.            *)
(***************************************************************************)
EXTENDS Integers, Sequences, FiniteSets, TLC

VARIABLES
    fileExists,     \* whether fopen(CSV_PATH, CSV_MODE) finds the file
    file,           \* the file's content: a sequence of lines, each ending in NL
    pc,             \* the statement of loadCsv's call chain that runs next
    handles,        \* per FILE handle: state ("unopened", "null", "open", "closed"),
                    \* pos (<<line, offset>> of the next byte), eof (fgets has
                    \* returned NULL on it), closes (the fclose calls on it)
    buffer,         \* char buffer[1024]: the C string the last fgets left in it
    toks,           \* loadCsv: the tokens strtok cut from buffer
    labels,         \* loadCsv: the labels strncat has appended to df->params
    skipFirstRow,   \* getDFsize local
    lock,           \* getDFsize local
    dfRows,         \* getDFsize local
    dfCols,         \* getDFsize local
    dfSize,         \* createDataFrame local: <<>> is NULL, else <<rows, cols>>
    df,             \* the csvData_t frame
    row,            \* loadCsv local: the row index of the data loop
    ub,             \* the undefined behaviours the run has gone through
    result,         \* what loadCsv returned: "none" until it returns
    token,          \* trimToken's argument (the trimToken specification)
    trimmedToken,   \* the block trimToken returned
    twice,          \* the block trimToken returned when fed its own result
    tpc             \* the trimToken specification's position

vars == <<fileExists, file, pc, handles, buffer, toks,
          labels, skipFirstRow, lock, dfRows, dfCols, dfSize, df, row, ub,
          result, token, trimmedToken, twice, tpc>>

loadVars == <<fileExists, file, pc, handles, buffer, toks,
              labels, skipFirstRow, lock, dfRows, dfCols, dfSize, df, row, ub,
              result>>

trimVars == <<token, trimmedToken, twice, tpc>>

----------------------------------------------------------------------------
(* Bounds of the model.                                                    *)

MaxHdrTok == 3      \* header tokens per generated file
MaxDataTok == 3     \* tokens per generated data line
MaxDataLines == 2   \* data lines per generated file
LongTokLen == 24    \* characters per token of the over-long data line
LongTokCount == 40  \* tokens of the over-long data line
MaxTokenLen == 3    \* length of trimToken's argument in the trimToken specification

----------------------------------------------------------------------------
(* Program constants.                                                      *)

BufSize == 1024     \* char buffer[1024]; fgets(buffer, 1024, filePtr)
DelimAlloc == 2     \* malloc(sizeof(char) * 2) for df->delim
PtrSize == 8        \* sizeof(char *), the count handed to strncpy
CSV_DELIM == <<",", " ">>

LoadHandle == 1     \* the FILE * of loadCsv's fopen
ScanHandle == 2     \* the FILE * of getDFsize's fopen
Handles == {LoadHandle, ScanHandle}

----------------------------------------------------------------------------
(* Characters and libc.                                                    *)

NUL == ""
NL == "\n"

DigitChars == <<"0", "1", "2", "3", "4", "5", "6", "7", "8", "9">>
LowerChars == <<"a", "b", "c", "d", "e", "f", "g", "h", "i", "j", "k", "l", "m",
                "n", "o", "p", "q", "r", "s", "t", "u", "v", "w", "x", "y", "z">>
UpperChars == <<"A", "B", "C", "D", "E", "F", "G", "H", "I", "J", "K", "L", "M",
                "N", "O", "P", "Q", "R", "S", "T", "U", "V", "W", "X", "Y", "Z">>

Range(s) == {s[i] : i \in DOMAIN s}

isdigit(c) == c \in Range(DigitChars)
isalnum(c) == c \in Range(DigitChars) \cup Range(LowerChars) \cup Range(UpperChars)
isspace(c) == c \in {" ", "\n", "\t", "\r", "\f"}

DigitVal(c) == (CHOOSE i \in DOMAIN DigitChars : DigitChars[i] = c) - 1

Min(S) == CHOOSE x \in S : \A y \in S : x <= y

\* strlen and the string a char * names: the bytes before the first NUL of a block.
\* A block that holds no NUL is read to its end (and past it: see ReadsPast).
strlen(b) == Min({i - 1 : i \in {j \in DOMAIN b : b[j] = NUL}} \cup {Len(b)})
CStr(b) == SubSeq(b, 1, strlen(b))
ReadsPast(b) == \A i \in DOMAIN b : b[i] # NUL

\* malloc(n): n indeterminate bytes, following the fill pattern the heap happens to hold.
malloc(n, fill) == [i \in 1..n |-> fill[((i - 1) % Len(fill)) + 1]]

\* strncpy(dest, src, n) writes exactly n bytes: src's, then NUL padding.
strncpy(src, n) == [i \in 1..n |-> IF i <= Len(src) THEN src[i] ELSE NUL]

\* strncat(dest, src, n) appends at most n characters of src at dest's first NUL,
\* then a NUL; the bytes of dest after that keep their values.
strncat(dest, src, n) ==
    LET a == SubSeq(src, 1, IF n < Len(src) THEN n ELSE Len(src))
        w == CStr(dest) \o a \o <<NUL>>
    IN  w \o SubSeq(dest, Len(w) + 1, Len(dest))

\* strtok(s, delim) and the strtok(NULL, delim) calls after it: every character of
\* delim is a separator; a token is a maximal run of characters that are not.
DelimSet(delim) == Range(delim)
TokBegin(s, D, i) == Min({j \in i..Len(s) : s[j] \notin D} \cup {Len(s) + 1})
TokEnd(s, D, i) == Min({j \in i..Len(s) : s[j] \in D} \cup {Len(s) + 1})
RECURSIVE strtokFrom(_, _, _)
strtokFrom(s, D, i) ==
    LET b == TokBegin(s, D, i)
        e == TokEnd(s, D, b)
    IN  IF b > Len(s) THEN <<>>
        ELSE <<SubSeq(s, b, e - 1)>> \o strtokFrom(s, D, e + 1)
strtok(s, delim) == strtokFrom(s, DelimSet(delim), 1)

\* atof on the literals the model's files hold: leading white space, an optional
\* sign, then decimal digits; 0 when no digit follows.
RECURSIVE atofDigits(_, _, _)
atofDigits(s, i, acc) ==
    IF i <= Len(s) /\ isdigit(s[i])
    THEN atofDigits(s, i + 1, 10 * acc + DigitVal(s[i]))
    ELSE acc
atof(s) ==
    LET b == Min({j \in DOMAIN s : ~isspace(s[j])} \cup {Len(s) + 1})
        neg == b <= Len(s) /\ s[b] = "-"
        d == IF b <= Len(s) /\ s[b] \in {"-", "+"} THEN b + 1 ELSE b
        v == atofDigits(s, d, 0)
    IN  IF neg THEN 0 - v ELSE v

\* fgets(buffer, 1024, filePtr) at position pos of file f: NULL at end of input;
\* else at most BufSize - 1 characters, stopping after a newline.
fgetsEof(f, pos) == pos[1] > Len(f)
fgetsRest(f, pos) == SubSeq(f[pos[1]], pos[2] + 1, Len(f[pos[1]]))
fgetsLine(f, pos) ==
    IF Len(fgetsRest(f, pos)) > BufSize - 1
    THEN SubSeq(fgetsRest(f, pos), 1, BufSize - 1)
    ELSE fgetsRest(f, pos)
fgetsPos(f, pos) ==
    IF Len(fgetsRest(f, pos)) > BufSize - 1
    THEN <<pos[1], pos[2] + BufSize - 1>>
    ELSE <<pos[1] + 1, 0>>

----------------------------------------------------------------------------
(* trimToken.                                                              *)

\* The while loop of trimToken: loop walks token, innerLoop walks trimmedToken.
RECURSIVE trimLoop(_, _, _, _)
trimLoop(tok, block, loop, innerLoop) ==
    IF loop > Len(tok) THEN block
    ELSE IF ~isalnum(tok[loop]) THEN trimLoop(tok, block, loop + 1, innerLoop)
    ELSE trimLoop(tok, [block EXCEPT ![innerLoop] = tok[loop]], loop + 1, innerLoop + 1)

\* trimToken(token): the block it returns, malloc'ed over the heap's fill.
trimToken(tok, fill) ==
    trimLoop(tok, [malloc(Len(tok) + 1, fill) EXCEPT ![1] = NUL], 1, 1)

----------------------------------------------------------------------------
(* The source file at CSV_PATH: a header line, then data lines.            *)

\* Token c of a header line: a bare letter, or letters around a punctuation mark.
HdrStyles == {"single", "multi"}
HdrTok(c, style) ==
    IF style = "single" THEN <<LowerChars[c]>>
    ELSE <<LowerChars[c], "!", LowerChars[c + 1]>>

\* Token c of data line r: the number 10r + c, or its two digits around a lone
\* space or a lone comma.
DataStyles == {"number", "spaced", "comma"}
DataTok(r, c, style) ==
    IF style = "number" THEN <<DigitChars[r + 1], DigitChars[c + 1]>>
    ELSE IF style = "spaced" THEN <<DigitChars[r + 1], " ", DigitChars[c + 1]>>
    ELSE <<DigitChars[r + 1], ",", DigitChars[c + 1]>>

RECURSIVE Join(_, _)
Join(ts, delim) ==
    IF Len(ts) = 0 THEN <<>>
    ELSE IF Len(ts) = 1 THEN ts[1]
    ELSE ts[1] \o delim \o Join(Tail(ts), delim)
Line(ts) == Join(ts, CSV_DELIM) \o <<NL>>

GenFile(hw, hs, widths, ds) ==
    <<Line([c \in 1..hw |-> HdrTok(c, hs)])>>
    \o [r \in 1..Len(widths) |-> Line([c \in 1..widths[r] |-> DataTok(r, c, ds)])]

\* A file whose one data line does not fit the line buffer.
LongTok(c) == [i \in 1..LongTokLen |-> IF i = LongTokLen THEN DigitChars[(c % 10) + 1] ELSE "0"]
LongFile == <<Line(<<HdrTok(1, "single")>>), Line([c \in 1..LongTokCount |-> LongTok(c)])>>

EmptyFile == <<>>

Widths == UNION {[1..n -> 1..MaxDataTok] : n \in 0..MaxDataLines}
Files ==
    {GenFile(hw, hs, w, ds) : hw \in 1..MaxHdrTok, hs \in HdrStyles, w \in Widths, ds \in DataStyles}
    \cup {LongFile, EmptyFile}

----------------------------------------------------------------------------
(* Indeterminate values.                                                   *)

\* What a fresh heap block may hold: zeroes, or non-zero bytes left by an earlier use.
HeapFills == {<<NUL>>, <<"g">>}
\* What the stack buffer may hold as a C string before any fgets fills it.
IndetBuffers == {<<>>, <<"g">>}
\* What a read through the NULL dfSize may yield when it does not trap.
IndetDims == {<<0, 0>>, <<1, 1>>}

\* After undefined behaviour the run goes on or is killed.
Outcomes(next, newUb) == IF newUb = {} THEN {next} ELSE {next, "crashed"}

----------------------------------------------------------------------------
(* closeFile and getDFsize.                                                *)

fopen(hs, h) ==
    [hs EXCEPT ![h] = [state |-> IF fileExists THEN "open" ELSE "null",
                       pos |-> <<1, 0>>, eof |-> FALSE, closes |-> 0]]

fclose(hs, h) ==
    IF hs[h].state = "null" THEN hs
    ELSE [hs EXCEPT ![h].state = "closed", ![h].closes = @ + 1]

\* closeFile that only reports: the fclose is left out.
closeFile_reportsOnly(hs, h) == hs

closeFile(hs, h) == IF hs[h].state = "null" THEN hs ELSE fclose(hs, h)

\* getDFsize, from its malloc and fopen to the test of filePtr.
getDFsize_fopen ==
    /\ pc = "getDFsize_fopen"
    /\ handles' = fopen(handles, ScanHandle)
    /\ skipFirstRow' = 0
    /\ lock' = FALSE
    /\ dfRows' = 0
    /\ dfCols' = 0
    /\ dfSize' = <<>>
    /\ pc' = IF fileExists THEN "getDFsize_fgets" ELSE "createDataFrame"
    /\ UNCHANGED <<fileExists, file, buffer, toks, labels, df, row, ub, result>>
    /\ UNCHANGED trimVars

\* What one pass of getDFsize's while loop makes of its counters.
scanSkip(skip) == 1
scanCols(skip, lk, cols, buf) ==
    IF skip # 0 /\ lk = FALSE THEN cols + Len(strtok(buf, CSV_DELIM)) ELSE cols
scanLock(skip, lk) == IF skip # 0 THEN TRUE ELSE lk
\* The row count with the header line counted too.
scanRows_countsHeader(skip, rows) == rows + 1
scanRows(skip, rows) == IF skip # 0 THEN rows + 1 ELSE rows

\* One pass of getDFsize's while loop: fgets returned a line.
getDFsize_line ==
    /\ pc = "getDFsize_fgets"
    /\ ~fgetsEof(file, handles[ScanHandle].pos)
    /\ buffer' = fgetsLine(file, handles[ScanHandle].pos)
    /\ handles' = [handles EXCEPT ![ScanHandle].pos = fgetsPos(file, @)]
    /\ skipFirstRow' = scanSkip(skipFirstRow)
    /\ dfCols' = scanCols(skipFirstRow, lock, dfCols, buffer')
    /\ lock' = scanLock(skipFirstRow, lock)
    /\ dfRows' = scanRows(skipFirstRow, dfRows)
    /\ UNCHANGED <<fileExists, file, pc, toks, labels, dfSize, df, row, ub, result>>
    /\ UNCHANGED trimVars

\* fgets returned NULL: getDFsize fills retVal, closes the file and returns.
getDFsize_return ==
    /\ pc = "getDFsize_fgets"
    /\ fgetsEof(file, handles[ScanHandle].pos)
    /\ handles' = closeFile([handles EXCEPT ![ScanHandle].eof = TRUE], ScanHandle)
    /\ dfSize' = <<dfRows, dfCols>>
    /\ pc' = "createDataFrame"
    /\ UNCHANGED <<fileExists, file, buffer, toks, labels, skipFirstRow, lock,
                   dfRows, dfCols, df, row, ub, result>>
    /\ UNCHANGED trimVars

----------------------------------------------------------------------------
(* createDataFrame, after getDFsize has returned.                          *)

NoFrame ==
    [alloc |-> FALSE, rows |-> 0, cols |-> 0, delim |-> <<>>, params |-> <<>>,
     dataFrame |-> <<>>]

\* malloc(cols + 1) and the one byte createDataFrame sets in it.
paramsBlock(cols, fill) == [malloc(cols + 1, fill) EXCEPT ![cols + 1] = NUL]

newFrame(size, fill) ==
    [alloc |-> TRUE, rows |-> size[1], cols |-> size[2],
     delim |-> strncpy(CSV_DELIM, PtrSize),
     params |-> paramsBlock(size[2], fill),
     dataFrame |-> <<>>]

createDataFrame ==
    /\ pc = "createDataFrame"
    /\ \E fill \in HeapFills, g \in IndetDims :
         LET null == dfSize = <<>>
             size == IF null THEN g ELSE dfSize
             newUb == (IF null THEN {"nullDeref"} ELSE {})
                      \cup (IF PtrSize > DelimAlloc THEN {"delimOverrun"} ELSE {})
         IN  /\ ub' = ub \cup newUb
             /\ \E next \in Outcomes("loadCsv_header", newUb) :
                  /\ pc' = next
                  /\ df' = IF next = "crashed" /\ null THEN df ELSE newFrame(size, fill)
    /\ UNCHANGED <<fileExists, file, handles, buffer, toks, labels, skipFirstRow,
                   lock, dfRows, dfCols, dfSize, row, result>>
    /\ UNCHANGED trimVars

----------------------------------------------------------------------------
(* loadCsv.                                                                *)

\* loadCsv's own fopen, before it calls createDataFrame.
loadCsv_fopen ==
    /\ pc = "loadCsv_fopen"
    /\ handles' = fopen(handles, LoadHandle)
    /\ pc' = "getDFsize_fopen"
    /\ UNCHANGED <<fileExists, file, buffer, toks, labels, skipFirstRow, lock,
                   dfRows, dfCols, dfSize, df, row, ub, result>>
    /\ UNCHANGED trimVars

\* The label of a token: the string the block trimToken returned names.
labelOf(tok, fill) == CStr(trimToken(tok, fill))

\* The header loop: each label is appended to params with strncat.
RECURSIVE appendLabels(_, _, _)
appendLabels(params, labs, k) ==
    IF k > Len(labs) THEN params
    ELSE appendLabels(strncat(params, labs[k], Len(labs[k])), labs, k + 1)

\* The feature-name block of loadCsv: one fgets, then the token loop.
loadCsv_header ==
    /\ pc = "loadCsv_header"
    /\ \E indet \in IndetBuffers :
         LET h == handles[LoadHandle]
             null == h.state = "null"
             eof == null \/ fgetsEof(file, h.pos)
             buf == IF eof THEN indet ELSE fgetsLine(file, h.pos)
             tk == strtok(buf, CStr(df.delim))
         IN  \E fills \in [1..Len(tk) -> HeapFills] :
               LET labs == [k \in 1..Len(tk) |-> labelOf(tk[k], fills[k])]
                   params == appendLabels(df.params, labs, 1)
                   newUb ==
                       (IF null THEN {"nullStream"} ELSE {})
                       \cup (IF eof THEN {"indetBuffer"} ELSE {})
                       \cup (IF Len(tk) > 0 /\ strlen(df.params) > 0
                             THEN {"indetParams"} ELSE {})
                       \cup (IF \E k \in 1..Len(tk) : ReadsPast(trimToken(tk[k], fills[k]))
                             THEN {"labelOverread"} ELSE {})
                       \cup (IF Len(params) > df.cols + 1 THEN {"paramsOverrun"} ELSE {})
               IN  /\ buffer' = buf
                   /\ toks' = tk
                   /\ labels' = labs
                   /\ handles' = IF null THEN handles
                                 ELSE IF eof THEN [handles EXCEPT ![LoadHandle].eof = TRUE]
                                 ELSE [handles EXCEPT ![LoadHandle].pos = fgetsPos(file, @)]
                   /\ df' = [df EXCEPT !.params = params]
                   /\ ub' = ub \cup newUb
                   /\ pc' \in Outcomes("loadCsv_malloc", newUb)
    /\ UNCHANGED <<fileExists, file, skipFirstRow, lock, dfRows, dfCols, dfSize,
                   row, result>>
    /\ UNCHANGED trimVars

\* The mallocs of the cell matrix: rows blocks of cols floats, none of them set.
loadCsv_malloc ==
    /\ pc = "loadCsv_malloc"
    /\ df' = [df EXCEPT !.dataFrame = <<>>]
    /\ row' = 0
    /\ pc' = "loadCsv_fgets"
    /\ UNCHANGED <<fileExists, file, handles, buffer, toks, labels, skipFirstRow,
                   lock, dfRows, dfCols, dfSize, ub, result>>
    /\ UNCHANGED trimVars

\* The cells after df->dataFrame[r][col] = atof(tokens) for every token of a line:
\* a map from the <<row, col>> written to the value, whatever the matrix's size.
storeRow(cells, r, tk) ==
    [p \in DOMAIN cells \cup {<<r, c - 1>> : c \in 1..Len(tk)} |->
        IF p[1] = r /\ p[2] < Len(tk) THEN atof(tk[p[2] + 1]) ELSE cells[p]]

\* One pass of the data loop: fgets returned a line.
loadCsv_row ==
    /\ pc = "loadCsv_fgets"
    /\ handles[LoadHandle].state = "open"
    /\ ~fgetsEof(file, handles[LoadHandle].pos)
    /\ LET buf == fgetsLine(file, handles[LoadHandle].pos)
           tk == strtok(buf, CStr(df.delim))
           newUb == IF Len(tk) > 0 /\ (row >= df.rows \/ Len(tk) > df.cols)
                    THEN {"cellOverrun"} ELSE {}
       IN  /\ buffer' = buf
           /\ toks' = tk
           /\ handles' = [handles EXCEPT ![LoadHandle].pos = fgetsPos(file, @)]
           /\ df' = [df EXCEPT !.dataFrame = storeRow(@, row, tk)]
           /\ row' = row + 1
           /\ ub' = ub \cup newUb
           /\ pc' \in Outcomes("loadCsv_fgets", newUb)
    /\ UNCHANGED <<fileExists, file, labels, skipFirstRow, lock, dfRows, dfCols,
                   dfSize, result>>
    /\ UNCHANGED trimVars

\* fgets returned NULL: loadCsv closes its handle and returns the frame.
loadCsv_return ==
    /\ pc = "loadCsv_fgets"
    /\ LET null == handles[LoadHandle].state = "null"
           newUb == IF null THEN {"nullStream"} ELSE {}
       IN  /\ ~null => fgetsEof(file, handles[LoadHandle].pos)
           /\ handles' = IF null THEN handles
                         ELSE fclose([handles EXCEPT ![LoadHandle].eof = TRUE], LoadHandle)
           /\ ub' = ub \cup newUb
           /\ \E next \in Outcomes("done", newUb) :
                /\ pc' = next
                /\ result' = IF next = "done" THEN "frame" ELSE result
    /\ UNCHANGED <<fileExists, file, buffer, toks, labels, skipFirstRow, lock,
                   dfRows, dfCols, dfSize, df, row>>
    /\ UNCHANGED trimVars

----------------------------------------------------------------------------
(* One call of loadCsv on a file.                                          *)

NoHandle == [state |-> "unopened", pos |-> <<1, 0>>, eof |-> FALSE, closes |-> 0]

TrimIdle ==
    /\ token = <<>>
    /\ trimmedToken = <<>>
    /\ twice = <<>>
    /\ tpc = "idle"

LoadIdle(start) ==
    /\ pc = start
    /\ handles = [h \in Handles |-> NoHandle]
    /\ buffer = <<>>
    /\ toks = <<>>
    /\ labels = <<>>
    /\ skipFirstRow = 0
    /\ lock = FALSE
    /\ dfRows = 0
    /\ dfCols = 0
    /\ dfSize = <<>>
    /\ df = NoFrame
    /\ row = 0
    /\ ub = {}
    /\ result = "none"

Init ==
    /\ file \in Files
    /\ fileExists \in (IF file = EmptyFile THEN {TRUE, FALSE} ELSE {TRUE})
    /\ LoadIdle("loadCsv_fopen")
    /\ TrimIdle

Next ==
    \/ loadCsv_fopen
    \/ getDFsize_fopen
    \/ getDFsize_line
    \/ getDFsize_return
    \/ createDataFrame
    \/ loadCsv_header
    \/ loadCsv_malloc
    \/ loadCsv_row
    \/ loadCsv_return

Spec == Init /\ [][Next]_vars

----------------------------------------------------------------------------
(* trimToken on its own: every token up to MaxTokenLen over TrimChars.     *)

TrimChars == {"a", "1", "!", " "}
TrimInputs == UNION {[1..n -> TrimChars] : n \in 0..MaxTokenLen}

trimToken_call ==
    /\ tpc = "call"
    /\ \E fill \in HeapFills : trimmedToken' = trimToken(token, fill)
    /\ tpc' = "trimmed"
    /\ UNCHANGED <<token, twice>>
    /\ UNCHANGED loadVars

trimToken_again ==
    /\ tpc = "trimmed"
    /\ \E fill \in HeapFills : twice' = trimToken(CStr(trimmedToken), fill)
    /\ tpc' = "twice"
    /\ UNCHANGED <<token, trimmedToken>>
    /\ UNCHANGED loadVars

TrimInit ==
    /\ token \in TrimInputs
    /\ trimmedToken = <<>>
    /\ twice = <<>>
    /\ tpc = "call"
    /\ file = EmptyFile
    /\ fileExists = TRUE
    /\ LoadIdle("idle")

TrimNext ==
    \/ trimToken_call
    \/ trimToken_again

TrimSpec == TrimInit /\ [][TrimNext]_vars

----------------------------------------------------------------------------
(* What the specification says of a source, stated apart from the code.    *)

\* The fields of s between exact occurrences of the whole delimiter string.
DelimAt(s, d, i) == i + Len(d) - 1 <= Len(s) /\ \A k \in DOMAIN d : s[i + k - 1] = d[k]
NextDelim(s, d, i) == Min({j \in i..Len(s) : DelimAt(s, d, j)} \cup {Len(s) + 1})
RECURSIVE SplitFrom(_, _, _)
SplitFrom(s, d, i) ==
    LET j == NextDelim(s, d, i)
        rest == IF j > Len(s) THEN <<>> ELSE SplitFrom(s, d, j + Len(d))
    IN  IF j = i THEN rest ELSE <<SubSeq(s, i, j - 1)>> \o rest
SplitExact(s, d) == SplitFrom(s, d, 1)

\* A line without its newline, and its fields.
Chomp(line) == IF Len(line) > 0 /\ line[Len(line)] = NL THEN SubSeq(line, 1, Len(line) - 1) ELSE line
Fields(line) == SplitExact(Chomp(line), CSV_DELIM)

\* A well-formed line: non-empty fields joined by the delimiter, then a newline;
\* the fields hold no delimiter character, and a data field is a decimal literal.
IsLabelText(fld) == Len(fld) > 0 /\ \A i \in DOMAIN fld : fld[i] \notin DelimSet(CSV_DELIM) \cup {NL, NUL}
IsNumber(fld) == Len(fld) > 0 /\ \A i \in DOMAIN fld : isdigit(fld[i])
WellFormedHeader(line) ==
    LET fs == Fields(line)
    IN  /\ Len(fs) > 0
        /\ line = Line(fs)
        /\ \A k \in DOMAIN fs : IsLabelText(fs[k])
WellFormedData(line) ==
    LET fs == Fields(line)
    IN  /\ Len(fs) > 0
        /\ line = Line(fs)
        /\ \A k \in DOMAIN fs : IsNumber(fs[k])
WellFormed(f) ==
    /\ Len(f) >= 1
    /\ WellFormedHeader(f[1])
    /\ \A r \in 2..Len(f) : WellFormedData(f[r])

\* Every line, its newline included, fits one fgets of the line buffer.
FitsBuffer(f) == \A r \in DOMAIN f : Len(f[r]) <= BufSize - 1

\* The number a decimal literal denotes.
RECURSIVE Decimal(_)
Decimal(fld) ==
    IF Len(fld) = 0 THEN 0
    ELSE 10 * Decimal(SubSeq(fld, 1, Len(fld) - 1)) + DigitVal(fld[Len(fld)])

\* A label with its non-alphanumeric characters dropped.
Sanitize(tok) == SelectSeq(tok, isalnum)

RECURSIVE Concat(_)
Concat(ss) == IF Len(ss) = 0 THEN <<>> ELSE ss[1] \o Concat(Tail(ss))

OpenHandles == {h \in Handles : handles[h].state = "open"}

\* The run met the source and a zeroed heap: no indeterminate byte was taken for
\* text and no missing handle or size was used.
CleanRun ==
    /\ fileExists
    /\ ub \cap {"nullDeref", "nullStream", "indetBuffer", "indetParams", "labelOverread"} = {}

----------------------------------------------------------------------------
(* The claims.                                                             *)

C2_HeaderAndCells ==
    (/\ pc = "done"
     /\ CleanRun
     /\ WellFormed(file)
     /\ Len(file) >= 2
     /\ \A r \in DOMAIN file : Len(Fields(file[r])) = df.cols) =>
        /\ labels = [k \in DOMAIN Fields(file[1]) |-> Sanitize(Fields(file[1])[k])]
        /\ CStr(df.params) = Concat(labels)
        /\ Len(df.params) <= df.cols + 1
        /\ \A r \in 0..(df.rows - 1) : \A c \in 0..(df.cols - 1) :
              /\ <<r, c>> \in DOMAIN df.dataFrame
              /\ df.dataFrame[<<r, c>>] = Decimal(Fields(file[r + 2])[c + 1])

\* C3: when the source cannot be opened, no code dereferences the missing
\* dimensions or reads the unopened handle, no frame is built or returned, and
\* the call ends with an error outcome rather than a crash.
C3_OpenFailureReported ==
    ~fileExists =>
        /\ "nullDeref" \notin ub
        /\ "nullStream" \notin ub
        /\ ~df.alloc
        /\ pc # "crashed"
        /\ result # "frame"

\* C4: a source of a header line and no data line loads as a frame with rows = 0,
\* cols = 0 and an empty header: no label character is stored in the header field
\* (stated for the runs on a zeroed heap).
C4_HeaderOnly ==
    (pc = "done" /\ CleanRun /\ Len(file) = 1) =>
        /\ df.rows = 0
        /\ df.cols = 0
        /\ df.params = <<NUL>>

\* C5: the block trimToken returns is terminated within its allocation and names
\* exactly the alphanumeric characters of the token, in order.
C5_TrimContract ==
    tpc \in {"trimmed", "twice"} =>
        /\ ~ReadsPast(trimmedToken)
        /\ CStr(trimmedToken) = Sanitize(token)

\* C6: tokenization cuts a line only at exact occurrences of the whole delimiter
\* string: in the dimension scan the column count is the number of fields of the
\* first data line, and in the load pass the tokens of a line are its fields.
C6_ExactDelimiter ==
    /\ (lock /\ Len(file) >= 2 /\ Len(file[1]) <= BufSize - 1) =>
          dfCols = Len(SplitExact(fgetsLine(file, <<2, 0>>), CSV_DELIM))
    /\ (pc \in {"loadCsv_malloc", "loadCsv_fgets", "done"} /\ CleanRun) =>
          toks = SplitExact(buffer, CSV_DELIM)

\* C7: after loadCsv of any source with a header line, the header holds exactly
\* column_count labels, and storing them never took more than the cols + 1 bytes
\* createDataFrame allocated (stated for the runs on a zeroed heap).
C7_HeaderFitsStorage ==
    (pc = "done" /\ CleanRun /\ Len(file) >= 1) =>
        /\ Len(labels) = df.cols
        /\ Len(df.params) <= df.cols + 1
        /\ "paramsOverrun" \notin ub

\* C8: trimToken applied to its own result returns the same string, and its
\* result is no longer than the token and holds no character the token lacks.
C8_TrimIdempotent ==
    tpc = "twice" =>
        /\ CStr(twice) = CStr(trimmedToken)
        /\ Len(CStr(trimmedToken)) <= Len(token)
        /\ Range(CStr(trimmedToken)) \subseteq Range(token)

\* C9: every write of the load pass to the cell matrix is at a <<row, col>> with
\* row < rows and col < cols, and at most rows data lines are consumed, whatever
\* data lines the source holds.
C9_CellWritesInBounds ==
    CleanRun =>
        /\ \A p \in DOMAIN df.dataFrame : p[1] < df.rows /\ p[2] < df.cols
        /\ "cellOverrun" \notin ub
        /\ df.alloc => row <= df.rows

\* C10, as stated: each handle is opened, read to end-of-input and closed before
\* another is opened, so at most one handle is open at any moment; a closed handle
\* was closed once, after end-of-input; no handle is open when loadCsv returns.
C10_OneHandleAtATime ==
    /\ Cardinality(OpenHandles) <= 1
    /\ \A h \in Handles : handles[h].state = "closed" => handles[h].eof /\ handles[h].closes = 1
    /\ pc = "done" => OpenHandles = {}

\* C10, amended: loadCsv's own handle stays open and unread while getDFsize opens
\* a second handle, reads it to end-of-input and closes it; loadCsv reads its
\* handle only after that. A handle is closed once, after end-of-input was
\* reached on it, and no handle is open when loadCsv returns.
C10_ScanInsideLoad ==
    /\ handles[ScanHandle].state = "open" =>
          handles[LoadHandle].state = "open" /\ handles[LoadHandle].pos = <<1, 0>>
    /\ (handles[LoadHandle].pos # <<1, 0>> \/ handles[LoadHandle].eof) =>
          handles[ScanHandle].state = "closed"
    /\ \A h \in Handles :
          /\ handles[h].closes <= 1
          /\ handles[h].state = "closed" => handles[h].eof /\ handles[h].closes = 1
          /\ handles[h].state = "open" => handles[h].closes = 0
    /\ pc = "done" => OpenHandles = {}

\* C10's case: loadCsv has returned after both handles were opened, read and closed.
C10_Witness ==
    /\ pc = "done"
    /\ Len(file) >= 2
    /\ \A h \in Handles : handles[h].state = "closed" /\ handles[h].eof /\ handles[h].closes = 1

====
